---- MODULE Spec2Model ----
(***************************************************************************)
(* Model of cpu_temp_monitors.py: three self-rescheduling monitors         *)
(* (check_cpu, check_hdds, check_nic) run by one sched.scheduler, each     *)
(* latching a fan level from a threshold table and driving ipmitool with   *)
(* the maximum of the three latched levels.                                *)
(*                                                                         *)
(* Temperatures are whole degrees: every threshold is an integer and the   *)
(* code only compares with >= and >, so a float reading behaves as its     *)
(* integer part.  Event times are kept relative to the current reading of  *)
(* time.time() (seconds until due, negative when overdue): the scheduler   *)
(* only ever compares an event's time with the clock and with other        *)
(* events' times.  The clock is taken to be non-decreasing and a cycle's   *)
(* external commands to return.                                            *)
(***************************************************************************)
EXTENDS Bags, FiniteSets, Integers, Sequences, TLC

VARIABLES
    cpu_fan_speed,  \* global cpu_fan_speed
    hdd_fan_speed,  \* global hdd_fan_speed
    nic_fan_speed,  \* global nic_fan_speed
    queue,          \* scheduler._queue: bag of pending events
    pc,             \* position of the single flow of control
    running,        \* the action scheduler.run() is executing, or "none"
    reading,        \* what the running cycle's sensor call returned
    sample_ok,      \* whether the running cycle obtained a reading
    prev_level,     \* the running action's latched level when its cycle began
    command,        \* level in the last ipmitool command line (0: none yet)
    repeated,       \* the running cycle's command repeats the one before it
    outcome,        \* how the running cycle's subprocess.run(command) ended
    ncalls,         \* subprocess.run calls made by the latest cycle
    cycles,         \* per action, cycles begun so far (saturating)
    temperature,    \* argument of a direct choose_fan_value call
    thresholds,     \* argument of a direct choose_fan_value call
    chosen_value,   \* result of a direct choose_fan_value call (0: not called)
    fan_speed       \* argument of a direct set_fan_speed call

vars == << cpu_fan_speed, hdd_fan_speed, nic_fan_speed, queue, pc, running,
           reading, sample_ok, prev_level, command, repeated, outcome, ncalls,
           cycles, temperature, thresholds, chosen_value, fan_speed >>

----------------------------------------------------------------------------
(* Bounds of the model *)

\* readings are drawn from {0, TempStep, 2*TempStep, ...} up to MaxTemp
MaxTemp == 90
TempStep == 45
\* a cycle's external calls take 0 or MaxLatency seconds
MaxLatency == 6
\* the per-action cycle counter saturates here
MaxCycles == 2
\* directly called choose_fan_value: table length, thresholds, levels, readings
MaxLen == 3
MaxThreshold == 3
MaxFanVal == 2
MaxArgTemp == 4
\* directly called set_fan_speed: fan_speed ranges over -MaxOver .. 100 + MaxOver
MaxOver == 3

----------------------------------------------------------------------------
(* Configuration *)

CPU_SENSORS_CHECK_INTERVAL == 5
NIC_SENSORS_CHECK_INTERVAL == 5
HDD_SENSORS_CHECK_INTERVAL == 60

CPU_THRESHOLDS ==
    << <<1, 1>>, <<27, 1>>, <<33, 1>>, <<37, 3>>, <<42, 3>>, <<49, 3>>,
       <<54, 5>>, <<59, 5>>, <<64, 5>>, <<69, 6>>, <<73, 6>>, <<79, 6>>,
       <<80, 7>>, <<87, 7>> >>

NIC_THRESHOLDS ==
    << <<1, 1>>, <<27, 1>>, <<33, 1>>, <<37, 3>>, <<42, 3>>, <<49, 3>>,
       <<54, 5>>, <<59, 5>>, <<64, 5>>, <<69, 6>>, <<73, 6>>, <<79, 6>>,
       <<80, 7>>, <<87, 7>> >>

HDD_THRESHOLDS ==
    << <<1, 1>>, <<22, 2>>, <<28, 2>>, <<34, 2>>, <<37, 3>>, <<42, 3>>,
       <<47, 4>>, <<51, 5>>, <<57, 6>>, <<61, 7>> >>

HDD_LIST == {"/dev/nvme0", "/dev/nvme1", "/dev/nvme2", "/dev/nvme3"}

\* clamp limits of set_fan_speed (0x01 and 0x64)
MinFanSpeed == 1
MaxFanSpeed == 100

\* mutant of DefaultFanSpeed: the monitors start at the minimum level
DefaultFanSpeedMin == MinFanSpeed

\* initial value of cpu_fan_speed, hdd_fan_speed and nic_fan_speed
DefaultFanSpeed == 3

Actions == {"check_cpu", "check_hdds", "check_nic"}

\* delay and priority each action passes to scheduler.enter for its next cycle
Interval(a) ==
    CASE a = "check_cpu"  -> CPU_SENSORS_CHECK_INTERVAL
      [] a = "check_nic"  -> NIC_SENSORS_CHECK_INTERVAL
      [] a = "check_hdds" -> HDD_SENSORS_CHECK_INTERVAL

Priority(a) ==
    CASE a = "check_cpu"  -> 1
      [] a = "check_nic"  -> 1
      [] a = "check_hdds" -> 2

----------------------------------------------------------------------------
(* Pure helpers *)

Max2(a, b) == IF a >= b THEN a ELSE b
Min2(a, b) == IF a <= b THEN a ELSE b

\* a reading that could not be obtained (get_*_temperature returns None)
None == -1

\* the readings a sensor can deliver
Temps == {t \in 0..MaxTemp : t % TempStep = 0}

\* the loop of choose_fan_value from entry i on, chosen_value so far = chosen
RECURSIVE ScanThresholds(_, _, _, _)
ScanThresholds(temp, table, i, chosen) ==
    IF i > Len(table) THEN chosen
    ELSE IF temp >= table[i][1]
         THEN ScanThresholds(temp, table, i + 1, table[i][2])
         ELSE chosen

\* mutant of choose_fan_value: the comparison is > instead of >=
RECURSIVE ScanThresholdsGt(_, _, _, _)
ScanThresholdsGt(temp, table, i, chosen) ==
    IF i > Len(table) THEN chosen
    ELSE IF temp > table[i][1]
         THEN ScanThresholdsGt(temp, table, i + 1, table[i][2])
         ELSE chosen

choose_fan_value_gt(temp, table) == ScanThresholdsGt(temp, table, 1, 1)

\* mutant of choose_fan_value: the comparison is <= instead of >=
RECURSIVE ScanThresholdsLe(_, _, _, _)
ScanThresholdsLe(temp, table, i, chosen) ==
    IF i > Len(table) THEN chosen
    ELSE IF temp <= table[i][1]
         THEN ScanThresholdsLe(temp, table, i + 1, table[i][2])
         ELSE chosen

choose_fan_value_le(temp, table) == ScanThresholdsLe(temp, table, 1, 1)

\* mutant of choose_fan_value: chosen_value starts at 0 instead of 1
choose_fan_value_from_zero(temp, table) == ScanThresholds(temp, table, 1, 0)

choose_fan_value(temp, table) == ScanThresholds(temp, table, 1, 1)

\* mutant of MaxHddTemp: the comparison is < instead of >
RECURSIVE MaxHddTempLt(_, _, _)
MaxHddTempLt(temps, devs, max_hdd_temp) ==
    IF devs = {} THEN max_hdd_temp
    ELSE LET device == CHOOSE d \in devs : TRUE
         IN  MaxHddTempLt(temps, devs \ {device},
                          IF temps[device] < max_hdd_temp
                          THEN temps[device] ELSE max_hdd_temp)

\* the loop of check_hdds over hdd_temperatures.items(), devs still to visit
RECURSIVE MaxHddTemp(_, _, _)
MaxHddTemp(temps, devs, max_hdd_temp) ==
    IF devs = {} THEN max_hdd_temp
    ELSE LET device == CHOOSE d \in devs : TRUE
         IN  MaxHddTemp(temps, devs \ {device},
                        IF temps[device] > max_hdd_temp
                        THEN temps[device] ELSE max_hdd_temp)

\* the dictionaries get_hdd_temperature can return ({} on any failure)
HddReadings == UNION { [S -> Temps] : S \in SUBSET HDD_LIST }

\* mutant of ClampFanSpeed: the upper limit is not applied
ClampFanSpeedNoUpper(speed) == Max2(MinFanSpeed, speed)

\* fan_speed = max(0x01, min(fan_speed, 0x64)) in set_fan_speed
ClampFanSpeed(speed) == Max2(MinFanSpeed, Min2(speed, MaxFanSpeed))

\* mutant of FinalSpeed: the NIC level is left out of the maximum
FinalSpeedWithoutNic(cpu, hdd, nic) == Max2(cpu, hdd)

\* final_speed = max(cpu_fan_speed, hdd_fan_speed, nic_fan_speed)
FinalSpeed(cpu, hdd, nic) == Max2(cpu, Max2(hdd, nic))

\* how subprocess.run(command, check=True) can end: normally, with a
\* non-zero exit status, or without the command having been started
Outcomes == {"ok", "CalledProcessError", "OSError"}

----------------------------------------------------------------------------
(* sched.scheduler *)

\* sched.Event; time is relative to the clock, see the module comment
Event(time, priority, action) ==
    [time |-> time, priority |-> priority, action |-> action]

\* scheduler.enter(delay, priority, action): time = timefunc() + delay
enter(q, delay, priority, action) ==
    q (+) SetToBag({Event(delay, priority, action)})

\* the clock moves on by dt seconds
Advance(q, dt) ==
    LET shifted == {[e EXCEPT !.time = e.time - dt] : e \in DOMAIN q}
    IN  [f \in shifted |-> q[[f EXCEPT !.time = f.time + dt]]]

\* mutant of Before: events are ordered by priority, then time
BeforeByPriority(e, f) ==
    \/ e.priority < f.priority
    \/ e.priority = f.priority /\ e.time < f.time

\* heap order of events: by time, then priority.  Events equal in both are
\* popped in an order the model leaves open.
Before(e, f) ==
    \/ e.time < f.time
    \/ e.time = f.time /\ e.priority < f.priority

\* e can be q[0], the event scheduler.run() pops next
IsNext(e) ==
    /\ e \in BagToSet(queue)
    /\ \A f \in BagToSet(queue) : ~Before(f, e)

\* mutant of SeedQueue: the NIC monitor is seeded one interval late
SeedQueueNicLate ==
    enter(enter(enter(EmptyBag, 0, 1, "check_cpu"), 0, 2, "check_hdds"),
          NIC_SENSORS_CHECK_INTERVAL, 3, "check_nic")

\* the three scheduler.enter calls of main()
SeedQueue ==
    enter(enter(enter(EmptyBag, 0, 1, "check_cpu"), 0, 2, "check_hdds"),
          0, 3, "check_nic")

----------------------------------------------------------------------------
(* The monitoring process *)

Init ==
    /\ cpu_fan_speed = DefaultFanSpeed
    /\ hdd_fan_speed = DefaultFanSpeed
    /\ nic_fan_speed = DefaultFanSpeed
    /\ queue = SeedQueue
    /\ pc = "run"
    /\ running = "none"
    /\ reading = None
    /\ sample_ok = FALSE
    /\ prev_level = 0
    /\ command = 0
    /\ repeated = FALSE
    /\ outcome = "none"
    /\ ncalls = 0
    /\ cycles = [a \in Actions |-> 0]
    /\ temperature = 0
    /\ thresholds = << >>
    /\ chosen_value = 0
    /\ fan_speed = 0

\* mutant of Dispatch: an event is dispatched while an action is running
DispatchAnytime(e, action) ==
    /\ pc \in {"run", "update", "enter"}
    /\ IsNext(e)
    /\ e.action = action
    /\ queue' = Advance(queue (-) SetToBag({e}), Max2(0, e.time))
    /\ running' = action
    /\ pc' = "update"
    /\ ncalls' = 0
    /\ cycles' = [cycles EXCEPT ![action] = Min2(@ + 1, MaxCycles)]
    /\ UNCHANGED << command, repeated, outcome,
                    temperature, thresholds, chosen_value, fan_speed >>

\* scheduler.run() pops event e, sleeps until it is due and calls its action
Dispatch(e, action) ==
    /\ pc = "run"
    /\ IsNext(e)
    /\ e.action = action
    /\ queue' = Advance(queue (-) SetToBag({e}), Max2(0, e.time))
    /\ running' = action
    /\ pc' = "update"
    /\ ncalls' = 0
    /\ cycles' = [cycles EXCEPT ![action] = Min2(@ + 1, MaxCycles)]
    /\ UNCHANGED << command, repeated, outcome,
                    temperature, thresholds, chosen_value, fan_speed >>

\* cpu_fan_speed after check_cpu has read cpu_temp
CpuLevel(cpu_temp, old) ==
    IF cpu_temp # None THEN choose_fan_value(cpu_temp, CPU_THRESHOLDS) ELSE old

\* nic_fan_speed after check_nic has read nic_temp
NicLevel(nic_temp, old) ==
    IF nic_temp # None THEN choose_fan_value(nic_temp, NIC_THRESHOLDS) ELSE old

\* mutant of HddLevel: a reading that misses a device of HDD_LIST is dropped
HddLevelAllDevices(hdd_temperatures, old) ==
    IF DOMAIN hdd_temperatures = HDD_LIST
    THEN choose_fan_value(
             MaxHddTemp(hdd_temperatures, DOMAIN hdd_temperatures, 0),
             HDD_THRESHOLDS)
    ELSE old

\* hdd_fan_speed after check_hdds has read hdd_temperatures
HddLevel(hdd_temperatures, old) ==
    choose_fan_value(MaxHddTemp(hdd_temperatures, DOMAIN hdd_temperatures, 0),
                     HDD_THRESHOLDS)

\* check_cpu up to its call of update_final_fan_speed
check_cpu ==
    \E e \in BagToSet(queue) :
        /\ Dispatch(e, "check_cpu")
        /\ \E cpu_temp \in Temps \cup {None} :
            /\ cpu_fan_speed' = CpuLevel(cpu_temp, cpu_fan_speed)
            /\ reading' = cpu_temp
            /\ sample_ok' = (cpu_temp # None)
            /\ prev_level' = cpu_fan_speed
            /\ UNCHANGED << hdd_fan_speed, nic_fan_speed >>

\* check_nic up to its call of update_final_fan_speed
check_nic ==
    \E e \in BagToSet(queue) :
        /\ Dispatch(e, "check_nic")
        /\ \E nic_temp \in Temps \cup {None} :
            /\ nic_fan_speed' = NicLevel(nic_temp, nic_fan_speed)
            /\ reading' = nic_temp
            /\ sample_ok' = (nic_temp # None)
            /\ prev_level' = nic_fan_speed
            /\ UNCHANGED << cpu_fan_speed, hdd_fan_speed >>

\* check_hdds up to its call of update_final_fan_speed
check_hdds ==
    \E e \in BagToSet(queue) :
        /\ Dispatch(e, "check_hdds")
        /\ \E hdd_temperatures \in HddReadings :
            /\ hdd_fan_speed' = HddLevel(hdd_temperatures, hdd_fan_speed)
            /\ reading' = hdd_temperatures
            /\ sample_ok' = (hdd_temperatures # << >>)
            /\ prev_level' = hdd_fan_speed
            /\ UNCHANGED << cpu_fan_speed, nic_fan_speed >>

\* mutant of set_fan_speed: a level equal to the last command is not re-sent
set_fan_speed_if_changed(speed, result) ==
    IF ClampFanSpeed(speed) = command
    THEN /\ repeated' = TRUE
         /\ outcome' = "ok"
         /\ UNCHANGED << command, ncalls >>
    ELSE /\ command' = ClampFanSpeed(speed)
         /\ repeated' = FALSE
         /\ outcome' = result
         /\ ncalls' = ncalls + 1

\* set_fan_speed(speed), subprocess.run ending with result.  Only
\* CalledProcessError is caught: any other exception leaves set_fan_speed,
\* the action and scheduler.run(), and the process ends.
set_fan_speed(speed, result) ==
    /\ command' = ClampFanSpeed(speed)
    /\ repeated' = (ClampFanSpeed(speed) = command)
    /\ outcome' = result
    /\ ncalls' = ncalls + 1

\* mutant of update_final_fan_speed: the final speed is stored in
\* cpu_fan_speed
update_final_fan_speed_stores ==
    /\ pc = "update"
    /\ \E result \in Outcomes, latency \in {0, MaxLatency} :
        /\ set_fan_speed(
               FinalSpeed(cpu_fan_speed, hdd_fan_speed, nic_fan_speed), result)
        /\ queue' = Advance(queue, latency)
        /\ pc' = IF result = "OSError" THEN "crashed" ELSE "enter"
    /\ cpu_fan_speed' = FinalSpeed(cpu_fan_speed, hdd_fan_speed, nic_fan_speed)
    /\ UNCHANGED << hdd_fan_speed, nic_fan_speed, running,
                    reading, sample_ok, prev_level, cycles,
                    temperature, thresholds, chosen_value, fan_speed >>

\* update_final_fan_speed, called by the running action; the sensor and
\* ipmitool commands of the cycle have taken latency seconds
update_final_fan_speed ==
    /\ pc = "update"
    /\ \E result \in Outcomes, latency \in {0, MaxLatency} :
        /\ set_fan_speed(
               FinalSpeed(cpu_fan_speed, hdd_fan_speed, nic_fan_speed), result)
        /\ queue' = Advance(queue, latency)
        /\ pc' = IF result = "OSError" THEN "crashed" ELSE "enter"
    /\ UNCHANGED << cpu_fan_speed, hdd_fan_speed, nic_fan_speed, running,
                    reading, sample_ok, prev_level, cycles,
                    temperature, thresholds, chosen_value, fan_speed >>

\* the scheduler.enter call that ends check_cpu, check_nic and check_hdds
Reschedule ==
    /\ pc = "enter"
    /\ queue' = enter(queue, Interval(running), Priority(running), running)
    /\ pc' = "run"
    /\ running' = "none"
    /\ reading' = None
    /\ sample_ok' = FALSE
    /\ prev_level' = 0
    /\ repeated' = FALSE
    /\ outcome' = "none"
    /\ UNCHANGED << cpu_fan_speed, hdd_fan_speed, nic_fan_speed,
                    command, ncalls, cycles,
                    temperature, thresholds, chosen_value, fan_speed >>

Next ==
    \/ check_cpu
    \/ check_nic
    \/ check_hdds
    \/ update_final_fan_speed
    \/ Reschedule

Spec == Init /\ [][Next]_vars

----------------------------------------------------------------------------
(* choose_fan_value and set_fan_speed called directly on drawn arguments *)

\* every threshold list of at most MaxLen entries, sorted or not
Tables ==
    UNION { [1..n -> (1..MaxThreshold) \X (1..MaxFanVal)] : n \in 0..MaxLen }

\* the table of the specification's worked example
ExampleTable ==
    << <<1, 1>>, <<27, 1>>, <<37, 3>>, <<54, 5>>, <<69, 6>>, <<80, 7>> >>

InitCalls ==
    /\ cpu_fan_speed = DefaultFanSpeed
    /\ hdd_fan_speed = DefaultFanSpeed
    /\ nic_fan_speed = DefaultFanSpeed
    /\ queue = EmptyBag
    /\ pc = "call"
    /\ running = "none"
    /\ reading = None
    /\ sample_ok = FALSE
    /\ prev_level = 0
    /\ command = 0
    /\ repeated = FALSE
    /\ outcome = "none"
    /\ ncalls = 0
    /\ cycles = [a \in Actions |-> 0]
    /\ chosen_value = 0
    /\ \/ /\ thresholds \in Tables
          /\ temperature \in 0..MaxArgTemp
          /\ fan_speed = 0
       \/ /\ thresholds \in
                {ExampleTable, CPU_THRESHOLDS, NIC_THRESHOLDS, HDD_THRESHOLDS}
          /\ temperature \in 0..MaxTemp
          /\ fan_speed = 0
       \/ /\ thresholds = << >>
          /\ temperature = 0
          /\ fan_speed \in (0 - MaxOver)..(MaxFanSpeed + MaxOver)

\* chosen_value = choose_fan_value(temperature, thresholds)
CallChooseFanValue ==
    /\ pc = "call"
    /\ chosen_value = 0
    /\ chosen_value' = choose_fan_value(temperature, thresholds)
    /\ UNCHANGED << cpu_fan_speed, hdd_fan_speed, nic_fan_speed, queue, pc,
                    running, reading, sample_ok, prev_level, command,
                    repeated, outcome,
                    ncalls, cycles, temperature, thresholds, fan_speed >>

\* set_fan_speed(fan_speed)
CallSetFanSpeed ==
    /\ pc = "call"
    /\ \E result \in Outcomes :
        /\ set_fan_speed(fan_speed, result)
        /\ pc' = IF result = "OSError" THEN "crashed" ELSE "returned"
    /\ UNCHANGED << cpu_fan_speed, hdd_fan_speed, nic_fan_speed, queue,
                    running, reading, sample_ok, prev_level, cycles,
                    temperature, thresholds, chosen_value, fan_speed >>

NextCalls ==
    \/ CallChooseFanValue
    \/ CallSetFanSpeed

SpecCalls == InitCalls /\ [][NextCalls]_vars

----------------------------------------------------------------------------
(* Properties *)

\* the latched level of the domain that action a monitors
Latched(a) ==
    CASE a = "check_cpu"  -> cpu_fan_speed
      [] a = "check_nic"  -> nic_fan_speed
      [] a = "check_hdds" -> hdd_fan_speed

\* a cycle is between its dispatch and the return of its action
InCycle == pc \in {"update", "enter"}

\* the actions with an event pending in q
Pending(q) == {e.action : e \in BagToSet(q)}

\* C1: a cycle whose sample failed (no reading, or for storage an empty
\* mapping) leaves its own domain's latched level as it was before the cycle
C1_StaleRetention ==
    (pc \in {"update", "enter", "crashed"} /\ ~sample_ok)
        => Latched(running) = prev_level

\* C2: the level handed to the actuator is the maximum of the three latched
\* levels as they stand after the cycle's latch update, clamped to [1,100],
\* so it is never below any domain's latched level
C2_Arbitration ==
    pc \in {"enter", "crashed"} =>
        /\ \E a \in Actions : command = ClampFanSpeed(Latched(a))
        /\ \A a \in Actions : command >= Latched(a)

C2_Witness ==
    /\ pc = "enter"
    /\ running = "check_cpu"
    /\ cpu_fan_speed = 1
    /\ hdd_fan_speed = 3
    /\ nic_fan_speed = 7
    /\ command = 7

\* C3: a failed actuator call, whatever the failure, does not abort the
\* process: the cycle goes on to its reschedule and the other domains'
\* events stay pending
C3_ActuatorFailureNonFatal ==
    outcome \in {"CalledProcessError", "OSError"} =>
        /\ pc = "enter"
        /\ Pending(queue) = Actions \ {running}

\* C4: every cycle ends by adding exactly one event for its own action, due
\* one interval after the cycle's completion
C4_RescheduleRegardless ==
    [][ /\ pc = "update" => pc' = "enter"
        /\ pc = "enter" =>
              \E e \in BagToSet(queue') :
                  /\ e.action = running
                  /\ e.time = Interval(running)
                  /\ queue' = queue (+) SetToBag({e}) ]_vars

\* C5: every cycle issues exactly one actuator call, after its latch update
\* and before its reschedule, whether or not the sample succeeded and
\* whether or not the level repeats the previous command
C5_OneCallPerCycle ==
    /\ pc = "update" => ncalls = 0
    /\ pc \in {"enter", "crashed"} => ncalls = 1
    /\ (pc = "run" /\ \E a \in Actions : cycles[a] > 0) => ncalls = 1

C5_Witness ==
    /\ pc = "enter"
    /\ ~sample_ok
    /\ repeated
    /\ ncalls = 1

\* C6: the level in the actuator command lies in [1,100]: values below 1 are
\* raised to 1, values above 100 lowered to 100, others passed unchanged
C6_Clamp ==
    outcome # "none" =>
        /\ command \in 1..100
        /\ fan_speed < 1 => command = 1
        /\ fan_speed > 100 => command = 100
        /\ fan_speed \in 1..100 => command = fan_speed

C6_Witness ==
    /\ outcome = "ok"
    /\ fan_speed = 102
    /\ command = 100

\* C7: a domain's latched level changes only in the dispatch step of that
\* domain's own cycle; the recompute, the actuator call and the reschedule
\* change no latched level
C7_ExclusiveWriter ==
    [][ \A a \in Actions :
            Latched(a)' # Latched(a) => (pc = "run" /\ running' = a) ]_vars

C7_Witness ==
    /\ pc = "enter"
    /\ running = "check_nic"
    /\ nic_fan_speed = 7
    /\ prev_level = 1
    /\ cpu_fan_speed = 3
    /\ hdd_fan_speed = 3

\* thresholds strictly ascending
StrictlyAscending(table) ==
    \A i \in 1..(Len(table) - 1) : table[i][1] < table[i + 1][1]

\* indexes of the entries whose threshold is at most temp
Qualifying(temp, table) == {i \in 1..Len(table) : table[i][1] <= temp}

\* C8: on a strictly ascending table choose_fan_value returns the level of
\* the entry at the greatest index whose threshold is <= the temperature,
\* and 1 when there is none; on the example table 36 -> 1, 37 -> 3, 90 -> 7
C8_ThresholdMap ==
    chosen_value # 0 =>
        /\ StrictlyAscending(thresholds) =>
              LET q == Qualifying(temperature, thresholds)
              IN  chosen_value =
                      IF q = {} THEN 1
                      ELSE thresholds[CHOOSE i \in q : \A j \in q : j <= i][2]
        /\ thresholds = ExampleTable =>
              /\ temperature = 36 => chosen_value = 1
              /\ temperature = 37 => chosen_value = 3
              /\ temperature = 90 => chosen_value = 7

C8_Witness ==
    /\ thresholds = ExampleTable
    /\ temperature = 37
    /\ chosen_value = 3

\* C9: all three domains are seeded with an immediate event, and no domain
\* begins a second cycle before every domain has begun its first
C9_StartupOrdering ==
    /\ (\A a \in Actions : cycles[a] = 0) =>
          \A a \in Actions : \E e \in BagToSet(queue) :
              e.action = a /\ e.time = 0
    /\ (\E a \in Actions : cycles[a] >= 2) =>
          \A b \in Actions : cycles[b] >= 1

C9_Witness ==
    /\ pc = "update"
    /\ running = "check_cpu"
    /\ cycles["check_cpu"] = 2
    /\ cycles["check_hdds"] = 1
    /\ cycles["check_nic"] = 1

\* the scheduler loop always takes its next step (every external call returns)
FairSpec == Spec /\ WF_vars(Next)

\* C10: the scheduler loop never ends and every domain runs a cycle
\* infinitely often
C10_Liveness ==
    \A a \in Actions : []<>(pc = "update" /\ running = a)

\* the threshold table of the domain that action a monitors
TableOf(a) ==
    CASE a = "check_cpu"  -> CPU_THRESHOLDS
      [] a = "check_nic"  -> NIC_THRESHOLDS
      [] a = "check_hdds" -> HDD_THRESHOLDS

\* ThresholdMap of the specification: the level of the last entry whose
\* threshold is at most temp, 1 when there is none
MapLevel(temp, table) ==
    LET q == Qualifying(temp, table)
    IN  IF q = {} THEN 1
        ELSE table[CHOOSE i \in q : \A j \in q : j <= i][2]

\* the greatest temperature of a non-empty device-to-temperature mapping
Hottest(temps) ==
    CHOOSE t \in {temps[d] : d \in DOMAIN temps} :
        \A d \in DOMAIN temps : temps[d] <= t

\* the representative temperature of the running cycle's reading
Representative ==
    IF running = "check_hdds" THEN Hottest(reading) ELSE reading

\* C11: after a cycle whose sample succeeded the domain's latched level is
\* ThresholdMap of its table and the representative temperature, for storage
\* the maximum over the reported devices
C11_SuccessfulUpdate ==
    (pc \in {"update", "enter", "crashed"} /\ sample_ok) =>
        Latched(running) = MapLevel(Representative, TableOf(running))

C11_Witness ==
    /\ pc = "enter"
    /\ running = "check_hdds"
    /\ DOMAIN reading = HDD_LIST
    /\ \E d \in HDD_LIST : reading[d] = 0
    /\ \E d \in HDD_LIST : reading[d] = 45
    /\ \E d \in HDD_LIST : reading[d] = 90
    /\ hdd_fan_speed = 7

\* levels non-decreasing in threshold order
NonDecreasingLevels(table) ==
    \A i \in 1..(Len(table) - 1) : table[i][2] <= table[i + 1][2]

\* C12: on a table with strictly ascending thresholds and non-decreasing
\* levels (levels being actuation levels, at least 1) choose_fan_value is
\* non-decreasing in the temperature
C12_Monotonic ==
    (/\ chosen_value # 0
     /\ StrictlyAscending(thresholds)
     /\ NonDecreasingLevels(thresholds)) =>
        \A t1 \in 0..temperature :
            choose_fan_value(t1, thresholds) <= chosen_value

C12_Witness ==
    /\ thresholds = << <<1, 1>>, <<2, 2>>, <<3, 2>> >>
    /\ temperature = 2
    /\ chosen_value = 2

\* C13: at most one cycle is in progress: no event is dispatched while an
\* action is running, and between a cycle's latch update and its actuator
\* call no latched level changes
C13_SingleFlow ==
    [][ /\ InCycle => running' \in {running, "none"}
        /\ running' \in Actions \ {running} => (pc = "run" /\ running = "none")
        /\ pc = "update" =>
              \A a \in Actions : Latched(a)' = Latched(a) ]_vars

C13_Witness ==
    /\ pc = "enter"
    /\ running = "check_nic"
    /\ \E e \in BagToSet(queue) : e.action = "check_cpu" /\ e.time < 0

\* C14: the event dispatched has the least run time of all pending events
\* and is dispatched no earlier than that time
C14_DueTimeOrder ==
    [][ (pc = "run" /\ pc' = "update") =>
            \E e \in BagToSet(queue) :
                /\ e.action = running'
                /\ \A f \in BagToSet(queue) : e.time <= f.time
                /\ queue' = Advance(queue (-) SetToBag({e}),
                                    IF e.time > 0 THEN e.time ELSE 0) ]_vars

C14_Witness ==
    /\ pc = "update"
    /\ running = "check_cpu"
    /\ cycles["check_cpu"] = 2
    /\ \E e \in BagToSet(queue) : e.action = "check_hdds" /\ e.time = 55
    /\ \E e \in BagToSet(queue) : e.action = "check_nic" /\ e.time = 0

\* C15: every latched level is an integer in [1,100] in every state
C15_LatchedRange ==
    \A a \in Actions : Latched(a) \in 1..100

C15_Witness ==
    /\ pc = "run"
    /\ cpu_fan_speed = 7
    /\ hdd_fan_speed = 1
    /\ nic_fan_speed = 3
    /\ cycles["check_nic"] >= 1

\* the number of events pending in q for action a
PendingCount(q, a) ==
    BagCardinality([e \in {x \in DOMAIN q : x.action = a} |-> q[e]])

\* C16: whenever no cycle is in progress the queue holds exactly one event
\* for each of the three actions
C16_OnePendingPerDomain ==
    ~InCycle => \A a \in Actions : PendingCount(queue, a) = 1

\* C17: every actuator call made before check_nic begins its first cycle
\* carries a level of at least the default 3
C17_StartupFloor ==
    (cycles["check_nic"] = 0 /\ command # 0) => command >= 3

C17_Witness ==
    /\ pc = "enter"
    /\ running = "check_hdds"
    /\ cycles["check_nic"] = 0
    /\ cpu_fan_speed = 1
    /\ hdd_fan_speed = 1
    /\ command = 3

\* C18: a storage reading that covers only some of the configured devices
\* is used as it is: the latched level is ThresholdMap of the maximum over
\* the reporting devices, not retained and not raised by the missing ones
C18_PartialReading ==
    (/\ pc \in {"update", "enter", "crashed"}
     /\ running = "check_hdds"
     /\ DOMAIN reading # {}
     /\ DOMAIN reading # HDD_LIST) =>
        /\ sample_ok
        /\ hdd_fan_speed = MapLevel(Hottest(reading), HDD_THRESHOLDS)

C18_Witness ==
    /\ pc = "enter"
    /\ running = "check_hdds"
    /\ DOMAIN reading = {"/dev/nvme1", "/dev/nvme3"}
    /\ reading["/dev/nvme1"] = 45
    /\ reading["/dev/nvme3"] = 0
    /\ prev_level = 7
    /\ hdd_fan_speed = 3

====
